---- MODULE Spec2Model ----
(***************************************************************************)
(* A model of scripts/vehicle_csv_analyzer.py: the lexicon, normalise,     *)
(* jaccard, fuzzy_match and the row loop and report of analyse.            *)
(*                                                                         *)
(* Texts and tokens are TLA+ strings, read character by character with     *)
(* SubSeq.  Python's None is the string None below (no text, token or      *)
(* colour of the lexicon can equal it: it holds the characters < and >),   *)
(* except for the value normalise returns, where None is the empty tuple   *)
(* and a result is the tuple <<make, model_tokens, colour>>.  A float that *)
(* the code obtains by dividing two integers is the reduced fraction       *)
(* <<numerator, denominator>>.                                             *)
(***************************************************************************)
EXTENDS Integers, Sequences, FiniteSets, TLC

VARIABLES
    \* ---- analyse: the csv reader and the locals of the function
    pc,               \* "loop", "report", "done" or "error"
    reader,           \* the rows of the CSV file, in file order
    pos,              \* how many rows the for loop has taken from reader
    total, make_match, model_match, both_match, colour_match,
    j_scores, substring_match,
    true_pos, false_pos, true_neg, false_neg,
    row, gt, pred, expected, is_match, make_ok, model_ok,
    error,            \* the exception that ended the run, or None
    out,              \* what the report printed
    \* ---- a second run of analyse over the same rows in another order
    pass,             \* 1 in the first run, 2 in the second
    first,            \* the counters the first run ended with
    \* ---- direct calls of the pure helpers
    call,             \* "idle", "normalise" or "jaccard"
    arg_text,         \* the argument of normalise
    arg_a, arg_b,     \* the arguments of jaccard
    ret               \* the value returned by the last call

counters == <<total, make_match, model_match, both_match, colour_match,
              j_scores, substring_match, true_pos, false_pos, true_neg, false_neg>>
locals == <<row, gt, pred, expected, is_match, make_ok, model_ok>>
runvars == <<pc, reader, pos, error, out, pass, first>>
purevars == <<call, arg_text, arg_a, arg_b, ret>>
vars == <<counters, locals, runvars, purevars>>

None == "<None>"
Unbound == "<unbound>"

\* ----------------- Configurable dictionaries -----------------
BODY_WORDS ==
    {"sedan","coupe","convertible","wagon","hatchback","suv","van","cab",
     "crew","regular","extended","cargo","minivan","roadster","cabriolet",
     "car","truck"}
TRIM_WORDS ==
    {"hybrid","sport","gt","ss","srt","rt","lx","ex","v8","v6","v12",
     "db9","zr1","z06","xkr","xk","touring","supersports","super","gti","hse",
     "awd","ff","xl","xlt","lt","ls","sv","rs","rsx","type","series","class"}
COLOURS ==
    {"black","white","silver","grey","gray","blue","red","green","yellow","gold",
     "orange","brown","beige","maroon","pink","purple","burgundy","tan","teal"}
SYNONYMS ==
    ("vw" :> "volkswagen") @@
    ("volkswagon" :> "volkswagen") @@
    ("chevy" :> "chevrolet") @@
    ("mb" :> "mercedes-benz") @@
    ("mercedes" :> "mercedes-benz") @@
    ("merc" :> "mercedes-benz") @@
    ("rr" :> "rolls-royce") @@
    ("land" :> "land-rover") @@
    ("rover" :> "land-rover")

\* ----------------- Strings -----------------
UPPER == "ABCDEFGHIJKLMNOPQRSTUVWXYZ"
LOWER == "abcdefghijklmnopqrstuvwxyz"
DIGITS == "0123456789"

Char(s, i) == SubSeq(s, i, i)

\* the characters of s
Chars(s) == {Char(s, i) : i \in 1..Len(s)}

UpperChars == Chars(UPPER)
\* the characters the pattern [^a-z0-9 ] does not match
KeptChars == Chars(LOWER) \cup Chars(DIGITS) \cup {" "}
DigitChars == Chars(DIGITS)

\* the lowercase letter of each uppercase letter
ToLower == [c \in UpperChars |-> Char(LOWER, CHOOSE i \in 1..Len(UPPER) : Char(UPPER, i) = c)]

\* str.lower() on one character
LowerChar(c) == IF c \in UpperChars THEN ToLower[c] ELSE c

RECURSIVE lower(_)
lower(s) == IF s = "" THEN "" ELSE LowerChar(Char(s, 1)) \o lower(Tail(s))

\* re.sub(r"[^a-z0-9 ]", " ", s)
RECURSIVE re_sub(_)
re_sub(s) ==
    IF s = "" THEN ""
    ELSE LET c == Char(s, 1)
         IN (IF c \in KeptChars THEN c ELSE " ") \o re_sub(Tail(s))

\* str.split() of a string whose only whitespace is the space: cur is the
\* token being read, acc the tokens read so far
RECURSIVE SplitFrom(_, _, _)
SplitFrom(s, cur, acc) ==
    IF s = "" THEN (IF cur = "" THEN acc ELSE Append(acc, cur))
    ELSE IF Char(s, 1) = " "
         THEN SplitFrom(Tail(s), "", IF cur = "" THEN acc ELSE Append(acc, cur))
         ELSE SplitFrom(Tail(s), cur \o Char(s, 1), acc)

split(s) == SplitFrom(s, "", <<>>)

\* str.isdigit() on a string of ASCII characters
isdigit(t) == t # "" /\ \A i \in 1..Len(t) : Char(t, i) \in DigitChars

\* Python's  sub in s  on strings
Contains(s, sub) ==
    \E i \in 1..(Len(s) - Len(sub) + 1) : SubSeq(s, i, i + Len(sub) - 1) = sub

\* ----------------- Normalisation helpers -----------------
_tokenise(text) == split(re_sub(lower(text)))

IsYear(t) == Len(t) = 4 /\ isdigit(t)

RemoveYears(tokens) == SelectSeq(tokens, LAMBDA t : ~IsYear(t))

\* FilterLoop without the continue after the colour is captured: the colour
\* word stays in the stream
RECURSIVE FilterLoopKeepsColour(_, _, _)
FilterLoopKeepsColour(tokens, colour, filtered) ==
    IF tokens = <<>> THEN <<colour, filtered>>
    ELSE LET t == Head(tokens)
         IN IF t \in COLOURS /\ colour = None
            THEN FilterLoopKeepsColour(Tail(tokens), t, Append(filtered, t))
            ELSE IF t \in BODY_WORDS \/ t \in TRIM_WORDS
                 THEN FilterLoopKeepsColour(Tail(tokens), colour, filtered)
                 ELSE FilterLoopKeepsColour(Tail(tokens), colour, Append(filtered, t))

\* the for loop of normalise: <<colour, filtered>> after the tokens
RECURSIVE FilterLoop(_, _, _)
FilterLoop(tokens, colour, filtered) ==
    IF tokens = <<>> THEN <<colour, filtered>>
    ELSE LET t == Head(tokens)
         IN IF t \in COLOURS /\ colour = None
            THEN FilterLoop(Tail(tokens), t, filtered)
            ELSE IF t \in BODY_WORDS \/ t \in TRIM_WORDS
                 THEN FilterLoop(Tail(tokens), colour, filtered)
                 ELSE FilterLoop(Tail(tokens), colour, Append(filtered, t))

\* dict.get(key, default)
Get(d, key, default) == IF key \in DOMAIN d THEN d[key] ELSE default

\* ResolveMake without the SYNONYMS lookup
ResolveMakeUnresolved(t) == t

\* SYNONYMS.get(filtered[0], filtered[0])
ResolveMake(t) == Get(SYNONYMS, t, t)

normalise(text) ==
    LET tokens == RemoveYears(_tokenise(text))
        res == FilterLoop(tokens, None, <<>>)
        colour == res[1]
        filtered == res[2]
    IN IF filtered = <<>> THEN <<>>
       ELSE <<ResolveMake(filtered[1]), Tail(filtered), colour>>

\* ----------------- Similarity -----------------
RECURSIVE GCD(_, _)
GCD(a, b) == IF b = 0 THEN a ELSE GCD(b, a % b)

\* the float n / d
Frac(n, d) == LET g == GCD(n, d) IN <<n \div g, d \div g>>

ToSet(a) == {a[i] : i \in 1..Len(a)}

\* jaccard dividing by the size of the first set instead of the union
jaccardOverFirst(a, b) ==
    IF a = <<>> \/ b = <<>> THEN <<0, 1>>
    ELSE LET sa == ToSet(a)
             sb == ToSet(b)
         IN Frac(Cardinality(sa \cap sb), Cardinality(sa))

jaccard(a, b) ==
    IF a = <<>> \/ b = <<>> THEN <<0, 1>>
    ELSE LET sa == ToSet(a)
             sb == ToSet(b)
         IN Frac(Cardinality(sa \cap sb), Cardinality(sa \cup sb))

\* " ".join(tokens)
RECURSIVE Join(_)
Join(tokens) ==
    IF tokens = <<>> THEN ""
    ELSE IF Len(tokens) = 1 THEN tokens[1]
         ELSE tokens[1] \o " " \o Join(Tail(tokens))

\* difflib.SequenceMatcher with no junk (autojunk only acts on a second
\* string of 200 characters or more).  Indices are 1-based, hi exclusive.
RECURSIVE RunLen(_, _, _, _, _, _)
RunLen(a, b, i, j, ahi, bhi) ==
    IF i < ahi /\ j < bhi /\ Char(a, i) = Char(b, j)
    THEN 1 + RunLen(a, b, i + 1, j + 1, ahi, bhi)
    ELSE 0

\* SequenceMatcher.find_longest_match: the longest common block of
\* a[alo:ahi] and b[blo:bhi]; of the longest, the one that starts earliest
\* in a, and of those the one that starts earliest in b
find_longest_match(a, b, alo, ahi, blo, bhi) ==
    LET starts == (alo..(ahi - 1)) \X (blo..(bhi - 1))
        size(p) == RunLen(a, b, p[1], p[2], ahi, bhi)
        sized == {<<p[1], p[2], size(p)>> : p \in starts}
        found == {m \in sized : m[3] > 0}
    IN IF found = {} THEN <<alo, blo, 0>>
       ELSE CHOOSE m \in found :
              \A n \in found :
                 \/ m[3] > n[3]
                 \/ m[3] = n[3] /\ m[1] < n[1]
                 \/ m[3] = n[3] /\ m[1] = n[1] /\ m[2] <= n[2]

\* the sum of the sizes of SequenceMatcher.get_matching_blocks
RECURSIVE Matches(_, _, _, _, _, _)
Matches(a, b, alo, ahi, blo, bhi) ==
    LET m == find_longest_match(a, b, alo, ahi, blo, bhi)
        i == m[1]
        j == m[2]
        k == m[3]
    IN IF k = 0 THEN 0
       ELSE k
            + (IF alo < i /\ blo < j THEN Matches(a, b, alo, i, blo, j) ELSE 0)
            + (IF i + k < ahi /\ j + k < bhi
               THEN Matches(a, b, i + k, ahi, j + k, bhi) ELSE 0)

\* SequenceMatcher(None, a, b).ratio()
ratio(a, b) ==
    IF Len(a) + Len(b) = 0 THEN <<1, 1>>
    ELSE Frac(2 * Matches(a, b, 1, Len(a) + 1, 1, Len(b) + 1), Len(a) + Len(b))

\* x >= y on fractions
FracGeq(x, y) == x[1] * y[2] >= y[1] * x[2]

threshold == <<4, 5>>

fuzzy_match(a, b) ==
    IF a = <<>> \/ b = <<>> THEN FALSE
    ELSE FracGeq(ratio(Join(a), Join(b)), threshold)

\* ----------------- CSV rows -----------------
\* A row of csv.DictReader under the header ground_truth, predicted,
\* expected, is_match: every key is present, and a cell the line does not
\* have is None (DictReader's restval).
Row(g, p, e, m) == [ground_truth |-> g, predicted |-> p, expected |-> e, is_match |-> m]

TextPairs ==
    { <<"2012 Toyota Camry LE Silver", "Toyota Camry silver">>,
      <<"Rolls-Royce Phantom", "RR Phantom">>,
      <<"Toyota Camry", "Honda Camry">>,
      <<"Red", "Honda Civic">>,
      <<"2015 Honda Civic Blue", "Honda Civic">>,
      <<"VW Golf GTI", "Volkswagen Golf">>,
      <<"Mercedes-Benz C300", "MB C300 black">>,
      <<"Honda Civic", "">> }

LabelPairs ==
    { <<"True", "true">>, <<"true", "False">>, <<"FALSE", "TRUE">>, <<"false", "">> }

\* lines that stop before the last column
ShortRows ==
    { Row("Toyota Camry", None, None, None),
      Row(None, "Honda Civic", None, None),
      Row("Honda Civic", "Honda Civic", "True", None) }

Rows == {Row(t[1], t[2], l[1], l[2]) : t \in TextPairs, l \in LabelPairs} \cup ShortRows

PermRows ==
    { Row("2012 Toyota Camry LE Silver", "Toyota Camry silver", "True", "true"),
      Row("Rolls-Royce Phantom", "RR Phantom", "true", "False"),
      Row("Toyota Camry", "Honda Camry", "FALSE", "TRUE"),
      Row("Red", "Honda Civic", "false", ""),
      Row("2015 Honda Civic Blue", "Honda Civic", "True", "true"),
      Row("VW Golf GTI", "Volkswagen Golf", "FALSE", "TRUE"),
      Row("Mercedes-Benz C300", "MB C300 black", "true", "False"),
      Row("Honda Civic", "", "True", "true"),
      Row("Toyota Camry", None, None, None) }

MaxRows == 2

Batches(S, n) == UNION {[1..k -> S] : k \in 0..n}

\* ----------------- CSV analysis -----------------
\* row.get("expected", "").lower() == 'true'
Expected(r) == lower(Get(r, "expected", "")) = "true"

\* row.get("is_match", "").lower() == 'true'
IsMatch(r) == lower(Get(r, "is_match", "")) = "true"

\* the line of the loop body at which the row raises AttributeError
\* (None has no lower()), or 0
RaisesAt(r) ==
    IF r["ground_truth"] = None THEN 107
    ELSE IF r["predicted"] = None THEN 108
    ELSE IF Get(r, "expected", "") = None THEN 111
    ELSE IF Get(r, "is_match", "") = None THEN 112
    ELSE 0

\* Confusion without its last elif
ConfusionNoFalsePos(e, m) ==
    IF e /\ m THEN "TP"
    ELSE IF ~e /\ ~m THEN "TN"
    ELSE IF e /\ ~m THEN "FN"
    ELSE "none"

\* the if / elif chain over the confusion matrix
Confusion(e, m) ==
    IF e /\ m THEN "TP"
    ELSE IF ~e /\ ~m THEN "TN"
    ELSE IF e /\ ~m THEN "FN"
    ELSE IF ~e /\ m THEN "FP"
    ELSE "none"

\* Inc counting the current run of matching rows instead of all of them
IncStreak(counter, cond) == IF cond THEN counter + 1 ELSE 0

\* if cond: counter += 1
Inc(counter, cond) == IF cond THEN counter + 1 ELSE counter

\* Python's truth value of what normalise returned
Truthy(n) == n # <<>>

MakeOk(g, p) == g[1] = p[1]

ModelOk(g, p) == fuzzy_match(g[2], p[2])

\* BothOk with or for and
BothOkEither(mk, md) == mk \/ md

\* if make_ok and model_ok
BothOk(mk, md) == mk /\ md

ColourOk(g, p) == g[3] # None /\ p[3] # None /\ g[3] = p[3]

Min(a, b) == IF a < b THEN a ELSE b

SubstringOk(r, g, p) ==
    LET raw_gt == lower(r["ground_truth"])
    IN /\ Contains(raw_gt, g[1])
       /\ \A i \in 1..Min(2, Len(p[2])) : Contains(raw_gt, p[2][i])

\* What the loop body computes from a row alone, up to the line at which it
\* raises: the locals it binds and the conditions of its counter updates.
Evaluate(r) ==
    LET at == RaisesAt(r)
        g == normalise(r["ground_truth"])
        p == normalise(r["predicted"])
        compared == at = 0 /\ Truthy(g) /\ Truthy(p)
    IN [at |-> at,
        gt |-> IF at = 107 THEN Unbound ELSE g,
        pred |-> IF at \in {107, 108} THEN Unbound ELSE p,
        expected |-> IF at \in {107, 108, 111} THEN Unbound ELSE Expected(r),
        is_match |-> IF at # 0 THEN Unbound ELSE IsMatch(r),
        class |-> IF at # 0 THEN Unbound ELSE Confusion(Expected(r), IsMatch(r)),
        compared |-> compared,
        make_ok |-> IF compared THEN MakeOk(g, p) ELSE Unbound,
        model_ok |-> IF compared THEN ModelOk(g, p) ELSE Unbound,
        colour_ok |-> IF compared THEN ColourOk(g, p) ELSE Unbound,
        jaccard |-> IF compared THEN jaccard(g[2], p[2]) ELSE Unbound,
        substring_ok |-> IF compared THEN SubstringOk(r, g, p) ELSE Unbound]

\* Evaluate, computed once for each row of the model
RowEval == [r \in Rows \cup PermRows |-> Evaluate(r)]

InitRun(batch) ==
    /\ pc = "loop"
    /\ reader = batch
    /\ pos = 0
    /\ total = 0 /\ make_match = 0 /\ model_match = 0 /\ both_match = 0
    /\ colour_match = 0 /\ j_scores = <<>> /\ substring_match = 0
    /\ true_pos = 0 /\ false_pos = 0 /\ true_neg = 0 /\ false_neg = 0
    /\ row = Unbound /\ gt = Unbound /\ pred = Unbound
    /\ expected = Unbound /\ is_match = Unbound
    /\ make_ok = Unbound /\ model_ok = Unbound
    /\ error = None
    /\ out = None
    /\ pass = 1
    /\ first = None

InitPure ==
    /\ call = "idle"
    /\ arg_text = None /\ arg_a = None /\ arg_b = None /\ ret = None

Init == (\E batch \in Batches(Rows, MaxRows) : InitRun(batch)) /\ InitPure

\* one iteration of  for row in reader
LoopBody ==
    /\ pc = "loop"
    /\ pos < Len(reader)
    /\ LET r == reader[pos + 1]
           v == RowEval[r]
       IN /\ pos' = pos + 1
          /\ row' = r
          /\ total' = total + 1
          /\ gt' = IF v.at = 107 THEN gt ELSE v.gt
          /\ pred' = IF v.at \in {107, 108} THEN pred ELSE v.pred
          /\ expected' = IF v.at \in {107, 108, 111} THEN expected ELSE v.expected
          /\ is_match' = IF v.at # 0 THEN is_match ELSE v.is_match
          /\ IF v.at # 0
             THEN /\ pc' = "error"
                  /\ error' = "AttributeError"
                  /\ UNCHANGED <<true_pos, false_pos, true_neg, false_neg,
                                 make_match, model_match, both_match, colour_match,
                                 j_scores, substring_match, make_ok, model_ok>>
             ELSE /\ UNCHANGED <<pc, error>>
                  /\ true_pos' = Inc(true_pos, v.class = "TP")
                  /\ true_neg' = Inc(true_neg, v.class = "TN")
                  /\ false_neg' = Inc(false_neg, v.class = "FN")
                  /\ false_pos' = Inc(false_pos, v.class = "FP")
                  /\ IF ~v.compared
                     THEN UNCHANGED <<make_match, model_match, both_match, colour_match,
                                      j_scores, substring_match, make_ok, model_ok>>
                     ELSE /\ make_ok' = v.make_ok
                          /\ model_ok' = v.model_ok
                          /\ make_match' = Inc(make_match, v.make_ok)
                          /\ model_match' = Inc(model_match, v.model_ok)
                          /\ both_match' = Inc(both_match, BothOk(v.make_ok, v.model_ok))
                          /\ colour_match' = Inc(colour_match, v.colour_ok)
                          /\ j_scores' = Append(j_scores, v.jaccard)
                          /\ substring_match' = Inc(substring_match, v.substring_ok)
    /\ UNCHANGED <<reader, out, pass, first, purevars>>

\* ----------------- Metrics and report -----------------
FracAdd(x, y) == Frac(x[1] * y[2] + y[1] * x[2], x[2] * y[2])

FracMul(x, y) == Frac(x[1] * y[1], x[2] * y[2])

\* x / y for y # 0
FracDiv(x, y) == Frac(x[1] * y[2], x[2] * y[1])

RECURSIVE FracSum(_)
FracSum(xs) == IF xs = <<>> THEN <<0, 1>> ELSE FracAdd(Head(xs), FracSum(Tail(xs)))

\* statistics.mean
mean(xs) == FracDiv(FracSum(xs), <<Len(xs), 1>>)

Precision == IF true_pos + false_pos > 0 THEN Frac(true_pos, true_pos + false_pos) ELSE <<0, 1>>

Recall == IF true_pos + false_neg > 0 THEN Frac(true_pos, true_pos + false_neg) ELSE <<0, 1>>

F1 ==
    IF FracAdd(Precision, Recall)[1] > 0
    THEN FracDiv(FracMul(<<2, 1>>, FracMul(Precision, Recall)), FracAdd(Precision, Recall))
    ELSE <<0, 1>>

Accuracy == IF total > 0 THEN Frac(true_pos + true_neg, total) ELSE <<0, 1>>

\* the lines printed under "--- Match Metrics ---"; the values are those
\* handed to the format specifiers
MatchReport ==
    [analysed |-> total, accuracy |-> Accuracy, precision |-> Precision,
     recall |-> Recall, f1 |-> F1,
     true_positives |-> true_pos, false_positives |-> false_pos,
     true_negatives |-> true_neg, false_negatives |-> false_neg]

\* the lines printed under "--- Detailed Accuracy ---", for total # 0
DetailReport ==
    [make_accuracy |-> Frac(make_match, total),
     model_accuracy |-> Frac(model_match, total),
     both_accuracy |-> Frac(both_match, total),
     colour_accuracy |-> Frac(colour_match, total),
     average_jaccard |-> IF j_scores # <<>> THEN mean(j_scores)
                         ELSE "No valid Jaccard scores",
     substring_heuristic |-> IF total > 0 THEN Frac(substring_match, total)
                             ELSE "No data"]

\* the end of the for loop and everything after it
Report ==
    /\ pc = "loop"
    /\ pos = Len(reader)
    /\ IF total = 0
       THEN \* make_match/total raises before the first detail line is printed
            /\ pc' = "error"
            /\ error' = "ZeroDivisionError"
            /\ out' = MatchReport
       ELSE /\ pc' = "done"
            /\ error' = error
            /\ out' = MatchReport @@ DetailReport
    /\ UNCHANGED <<reader, pos, counters, locals, pass, first, purevars>>

Next == LoopBody \/ Report

Spec == Init /\ [][Next]_vars

\* ----------------- A second run over the same rows -----------------
MaxPermRows == 3

BagOf(xs) == [v \in ToSet(xs) |-> Cardinality({i \in 1..Len(xs) : xs[i] = v})]

\* the rows a run was given and the counters it ended with
Snapshot ==
    [total |-> total, true_pos |-> true_pos, false_pos |-> false_pos,
     true_neg |-> true_neg, false_neg |-> false_neg,
     make_match |-> make_match, model_match |-> model_match,
     both_match |-> both_match, colour_match |-> colour_match,
     substring_match |-> substring_match, j_scores |-> j_scores, rows |-> reader]

InitPerm == (\E batch \in Batches(PermRows, MaxPermRows) : InitRun(batch)) /\ InitPure

\* analyse is called again on a file that holds the same rows in another order
Rerun ==
    /\ pc = "done"
    /\ pass = 1
    /\ \E perm \in Permutations(1..Len(reader)) :
          reader' = [i \in 1..Len(reader) |-> reader[perm[i]]]
    /\ first' = Snapshot
    /\ pass' = 2
    /\ pc' = "loop"
    /\ pos' = 0
    /\ total' = 0 /\ make_match' = 0 /\ model_match' = 0 /\ both_match' = 0
    /\ colour_match' = 0 /\ j_scores' = <<>> /\ substring_match' = 0
    /\ true_pos' = 0 /\ false_pos' = 0 /\ true_neg' = 0 /\ false_neg' = 0
    /\ row' = Unbound /\ gt' = Unbound /\ pred' = Unbound
    /\ expected' = Unbound /\ is_match' = Unbound
    /\ make_ok' = Unbound /\ model_ok' = Unbound
    /\ error' = None
    /\ out' = None
    /\ UNCHANGED purevars

NextPerm == LoopBody \/ Report \/ Rerun

SpecPerm == InitPerm /\ [][NextPerm]_vars

\* ----------------- Direct calls of normalise and jaccard -----------------
NormWords ==
    {"2012", "Toyota", "Camry", "LE", "Silver", "Red", "sedan", "GTI", "RR", "Rolls-Royce"}

MaxTokens == 2

NormTexts ==
    {Join(ws) : ws \in Batches(NormWords, MaxTokens)}
    \cup {"2012 Toyota Camry LE Silver", "VW Golf GTI", "Rolls-Royce Phantom",
          "RR Phantom", "  (Red)  ", "Land Rover Range Rover"}

JTokens == {"camry", "le", "civic"}

MaxLen == 2

CallNormalise ==
    /\ call = "idle"
    /\ \E text \in NormTexts :
          /\ arg_text' = text
          /\ ret' = normalise(text)
    /\ call' = "normalise"
    /\ UNCHANGED <<arg_a, arg_b, counters, locals, runvars>>

CallJaccard ==
    /\ call = "idle"
    /\ \E a \in Batches(JTokens, MaxLen), b \in Batches(JTokens, MaxLen) :
          /\ arg_a' = a
          /\ arg_b' = b
          /\ ret' = jaccard(a, b)
    /\ call' = "jaccard"
    /\ UNCHANGED <<arg_text, counters, locals, runvars>>

NextPure == CallNormalise \/ CallJaccard

InitCalls == InitRun(<<>>) /\ InitPure

SpecPure == InitCalls /\ [][NextPure]_vars

\* ----------------- Properties -----------------
\* every cell of the row is present, so that its loop body does not raise
Complete(r) ==
    /\ r["ground_truth"] # None /\ r["predicted"] # None
    /\ r["expected"] # None /\ r["is_match"] # None

\* the rows taken so far whose loop body ran to its continue or to its end
Processed == {i \in 1..pos : Complete(reader[i])}

\* the run has not been ended by an exception of the loop body
NotAborted == error # "AttributeError"

\* the rows taken so far on which both normalise calls returned a value
Compared == {i \in Processed : RowEval[reader[i]].gt # <<>> /\ RowEval[reader[i]].pred # <<>>}

\* C1: every processed row is counted in exactly the confusion counter its
\* expected and is_match booleans select, whether or not its texts
\* normalise, so that the four counters add up to total.
C1_OneClassPerRow ==
    LET n(e, m) == Cardinality({i \in Processed :
                        Expected(reader[i]) = e /\ IsMatch(reader[i]) = m})
    IN /\ true_pos = n(TRUE, TRUE)
       /\ true_neg = n(FALSE, FALSE)
       /\ false_neg = n(TRUE, FALSE)
       /\ false_pos = n(FALSE, TRUE)
       /\ NotAborted => true_pos + false_pos + true_neg + false_neg = total

\* a row whose ground truth does not normalise has been counted as a true
\* positive, and one whose prediction does not normalise as a false negative
C1_Witness ==
    /\ pos = 2 /\ pc = "done"
    /\ RowEval[reader[1]].gt = <<>> /\ RowEval[reader[1]].class = "TP"
    /\ RowEval[reader[2]].pred = <<>> /\ RowEval[reader[2]].class = "FN"
    /\ true_pos = 1 /\ false_neg = 1 /\ total = 2

\* C2: a run over zero rows completes and reports "no data" for every rate.
C2_EmptyBatchReportsNoData ==
    (reader = <<>> /\ pc # "loop") =>
        /\ pc = "done"
        /\ error = None
        /\ \A k \in {"make_accuracy", "model_accuracy", "both_accuracy",
                     "colour_accuracy", "substring_heuristic"} :
              k \in DOMAIN out /\ out[k] = "No data"
        /\ "average_jaccard" \in DOMAIN out
        /\ out["average_jaccard"] = "No valid Jaccard scores"

\* C3: a row whose ground-truth or predicted text is missing never aborts
\* the run: it is counted in total and in its confusion class only.
C3_MissingTextRecoverable ==
    \A i \in 1..pos :
        (reader[i]["ground_truth"] = None \/ reader[i]["predicted"] = None) =>
            /\ pc # "error"
            /\ true_pos + false_pos + true_neg + false_neg = total

\* C4: substring_match counts the compared rows whose PREDICTED make and
\* first two predicted model tokens all occur in the lowercased raw
\* ground-truth text.
C4_SubstringUsesPredictedMake ==
    LET claimed(r) ==
            LET raw_gt == lower(r["ground_truth"])
                p == RowEval[r].pred
            IN /\ Contains(raw_gt, p[1])
               /\ \A k \in 1..Min(2, Len(p[2])) : Contains(raw_gt, p[2][k])
    IN substring_match = Cardinality({i \in Compared : claimed(reader[i])})

\* C5: a row with ground truth "Rolls-Royce Phantom" and prediction
\* "RR Phantom" resolves both makes to "rolls-royce" and counts as a make
\* match.
C5_RollsRoyceMakeMatch ==
    (/\ pos >= 1
     /\ NotAborted
     /\ row["ground_truth"] = "Rolls-Royce Phantom"
     /\ row["predicted"] = "RR Phantom") =>
        /\ gt[1] = "rolls-royce"
        /\ pred[1] = "rolls-royce"
        /\ make_ok = TRUE
        /\ make_match >= 1

\* C6 as written: normalise("2012 Toyota Camry LE Silver") is
\* (toyota, [camry], silver).
C6_Original ==
    (call = "normalise" /\ arg_text = "2012 Toyota Camry LE Silver") =>
        ret = <<"toyota", <<"camry">>, "silver">>

\* C6 as amended: normalise("2012 Toyota Camry LE Silver") is
\* (toyota, [camry, le], silver): the year is dropped and the colour is
\* captured, and "le", which TRIM_WORDS does not hold, stays a model token.
C6_YearAndColourStripped ==
    (call = "normalise" /\ arg_text = "2012 Toyota Camry LE Silver") =>
        /\ ret = <<"toyota", <<"camry", "le">>, "silver">>
        /\ "le" \notin TRIM_WORDS

C6_Witness ==
    /\ call = "normalise"
    /\ arg_text = "2012 Toyota Camry LE Silver"
    /\ ret # <<>>

\* C7: a run over a permutation of the rows of a completed run ends with
\* the same total, the same confusion and field counters and the same
\* multiset of Jaccard scores.
C7_OrderIndependent ==
    (pass = 2 /\ pc = "done") =>
        /\ total = first.total
        /\ true_pos = first.true_pos /\ false_pos = first.false_pos
        /\ true_neg = first.true_neg /\ false_neg = first.false_neg
        /\ make_match = first.make_match /\ model_match = first.model_match
        /\ both_match = first.both_match /\ colour_match = first.colour_match
        /\ substring_match = first.substring_match
        /\ BagOf(j_scores) = BagOf(first.j_scores)

\* the second run took the rows in another order and met the scores in
\* another order
C7_Witness ==
    /\ pass = 2 /\ pc = "done"
    /\ reader # first.rows
    /\ j_scores # first.j_scores
    /\ make_match > 0 /\ make_match < Len(j_scores) /\ Len(j_scores) < total

\* the tokens of the text that the filters of normalise let through: not a
\* year, not a body-style or trim word, and not the first colour word
Survivors(text) ==
    LET toks == _tokenise(text)
        colourAt(i) == ~IsYear(toks[i]) /\ toks[i] \in COLOURS
        firstColour(i) == colourAt(i) /\ \A j \in 1..(i - 1) : ~colourAt(j)
    IN {i \in 1..Len(toks) :
          /\ ~IsYear(toks[i])
          /\ toks[i] \notin BODY_WORDS \cup TRIM_WORDS
          /\ ~firstColour(i)}

\* C8 as written: a text of exactly one token never normalises to None, and
\* yields that token, resolved through SYNONYMS, as make with no model tokens.
C8_Original ==
    (call = "normalise" /\ Len(_tokenise(arg_text)) = 1) =>
        LET t == _tokenise(arg_text)[1]
        IN /\ ret # <<>>
           /\ ret[1] = (IF t \in DOMAIN SYNONYMS THEN SYNONYMS[t] ELSE t)
           /\ ret[2] = <<>>

\* C8 as amended: a text of exactly one token that is not a four-digit
\* year, a colour, a body-style or a trim word yields that token, resolved
\* through SYNONYMS, as make with no model tokens; a single token of one of
\* those classes yields None; and normalise returns None exactly when no
\* token survives the filters.
C8_SingleToken ==
    (call = "normalise") =>
        /\ (ret = <<>>) <=> (Survivors(arg_text) = {})
        /\ Len(_tokenise(arg_text)) = 1 =>
              LET t == _tokenise(arg_text)[1]
              IN IF IsYear(t) \/ t \in COLOURS \cup BODY_WORDS \cup TRIM_WORDS
                 THEN ret = <<>>
                 ELSE /\ ret # <<>>
                      /\ ret[1] = (IF t \in DOMAIN SYNONYMS THEN SYNONYMS[t] ELSE t)
                      /\ ret[2] = <<>>

\* a single alias token has been resolved to its canonical make
C8_Witness ==
    /\ call = "normalise"
    /\ _tokenise(arg_text) = <<"rr">>
    /\ ret = <<"rolls-royce", <<>>, None>>

\* C9: jaccard is symmetric, is 1 on equal non-empty arguments and is 0 as
\* soon as one argument is empty.
C9_Jaccard ==
    (call = "jaccard") =>
        /\ ret = jaccard(arg_b, arg_a)
        /\ (arg_a = arg_b /\ arg_a # <<>>) => ret = <<1, 1>>
        /\ (ToSet(arg_a) = ToSet(arg_b) /\ arg_a # <<>>) => ret = <<1, 1>>
        /\ (arg_a = <<>> \/ arg_b = <<>>) => ret = <<0, 1>>

\* arguments with a repeated token that overlap in part
C9_Witness ==
    /\ call = "jaccard"
    /\ Len(arg_a) = 2 /\ Cardinality(ToSet(arg_a)) = 1
    /\ Cardinality(ToSet(arg_b)) = 2
    /\ ret = <<1, 2>>

\* C10, in every state: the field counters are bounded by len(j_scores),
\* which is the number of processed rows on which both texts normalised
C10_Bounds ==
    /\ both_match <= make_match
    /\ both_match <= model_match
    /\ make_match <= Len(j_scores)
    /\ model_match <= Len(j_scores)
    /\ colour_match <= Len(j_scores)
    /\ substring_match <= Len(j_scores)
    /\ Len(j_scores) <= total
    /\ Len(j_scores) = Cardinality(Compared)

\* C10, in every step: a row on which a normalise call returned None adds
\* one to total and to one confusion counter and changes nothing else
C10_SkippedRow ==
    (pos' = pos + 1 /\ pc' = "loop" /\ (gt' = <<>> \/ pred' = <<>>)) =>
        /\ total' = total + 1
        /\ true_pos' + false_pos' + true_neg' + false_neg'
              = true_pos + false_pos + true_neg + false_neg + 1
        /\ true_pos' >= true_pos /\ false_pos' >= false_pos
        /\ true_neg' >= true_neg /\ false_neg' >= false_neg
        /\ UNCHANGED <<make_match, model_match, both_match, colour_match,
                       substring_match, j_scores>>

\* C10: after any prefix of rows the field-level counters are bounded by
\* the number of rows on which both texts normalised, and a row on which a
\* normalisation failed leaves them and j_scores unchanged.
C10_FieldCounters == [](C10_Bounds) /\ [][C10_SkippedRow]_vars

\* a compared row that matched on make and model, then a skipped row
C10_Witness ==
    /\ pos = 2 /\ pc = "loop"
    /\ RowEval[reader[1]].compared /\ ~RowEval[reader[2]].compared
    /\ both_match = 1 /\ Len(j_scores) = 1 /\ total = 2

====
